---- MODULE Spec2Model ----
(***************************************************************************)
(* Model of OmniParserUDF.parse_structure and TableInfo                    *)
(* (src/fonduer/parser.py): the tree walk that extracts text blocks and    *)
(* tracks table geometry, the batching loop that feeds the concatenated    *)
(* buffer to the annotator, and the reconciliation of annotated units to   *)
(* blocks and their assembly into Phrases.                                 *)
(*                                                                         *)
(* The element tree is an input: the walk generates it node by node, in    *)
(* the order parse_node visits it (a node is entered, its text and tail    *)
(* are extracted, its children are visited, the node is exited).           *)
(* A rowspan / colspan of 1 also stands for an absent attribute: both      *)
(* leave row_end = row_start (lines 645-650).                              *)
(*                                                                         *)
(* Also modelled: DocPreprocessor.generate and CoreNLPHandler.parse of     *)
(* src/fonduer/parser.py and src/snorkel/parser.py.                        *)
(***************************************************************************)
EXTENDS Integers, Sequences, FiniteSets, TLC

\* ---------------------------------------------------------------- bounds
MaxNodes == 2
MaxGridNodes == 5
MaxCellNodes == 4
MaxDepth == 3
MaxBlocks == 2
MaxTextLen == 2
MaxSpan == 2
MaxUnits == 2
TwoRowUnits == 3
MaxRerunNodes == 2
SmallBatch == 4
LargeBatch == 8
MaxFiles == 3
MaxDocsPerFile == 2
MaxDocsLimit == 3
MaxSentences == 2
MaxTokens == 2

\* ------------------------------------------------------------- constants
delim == <<"<", "N", "B", ">">>

None == 0
Unset == -1

\* max_docs=float('inf'), the default
NoLimit == -1

Tags == {"table", "tr", "td", "div"}
PipelineTags == {"table", "td", "div"}
Spans == 1..MaxSpan
ColSpans == 1..(MaxSpan + 1)
\* int(node.get("rowspan")): the values of the attribute, 0 among them
AttrSpans == 0..MaxSpan
BatchSizes == {SmallBatch, LargeBatch}
DocClasses == {"Document", "Other"}

RECURSIVE Repeat(_, _)
Repeat(ch, n) == IF n = 0 THEN <<>> ELSE <<ch>> \o Repeat(ch, n - 1)

\* text / tail of a node: None (empty sequence), one character, or a run of
\* MaxTextLen characters
Texts == {Repeat("a", n) : n \in {0, 1, MaxTextLen}}

Max(a, b) == IF a >= b THEN a ELSE b

RECURSIVE SumSeq(_)
SumSeq(s) == IF s = <<>> THEN 0 ELSE s[1] + SumSeq(Tail(s))

\* no element tree given as a whole
NoTree == <<>>

\* the default replacements of OmniParser: the dashes become "-" ("~" stands
\* for any of the dash characters of the pattern)
DefaultReplacements == << <<"~", <<"-">> >> >>

\* ------------------------------------------------------------- variables
VARIABLES
    pc,             \* "idle", "walk", "walked", "batch", "done", "failed"
    docClass,       \* class of the object passed as `document`
    batch_size,     \* self.batch_size
    tabular,        \* self.tabular
    table_grid,     \* the defaultdict shared by every TableInfo (keys set to 1)
    table_idx,      \* self.table_idx
    stack,          \* tags of the nodes parse_node is currently inside
    infos,          \* TableInfo objects in use, innermost last
    nodes,          \* number of nodes entered so far
    tables,         \* Table entities created, in creation order
    cells,          \* Cell entities created, in creation order
    contents,       \* self.contents
    block_lengths,  \* block_lengths
    parents,        \* parents
    parsed,         \* parsed
    batch_end,      \* batch_end
    parent_idx,     \* parent_idx
    position,       \* position
    phrase_num,     \* phrase_num
    budget,         \* units the annotator may still return for this document
    fatal,          \* the annotator has reported too long or timed out
    skipped,        \* <<start, end>> of the latest batch with a malformed
                    \* response, or <<>>
    phrases,        \* Phrases yielded by parse_structure, in order
    warned,         \* number of warnings.warn calls
    trapped,        \* phrase_num at every entry of the except handler
    raised,         \* the exception that left parse_structure, or "none"
    tree,           \* the element tree walked as a whole, or NoTree
    flatten_delim,  \* self.flatten_delim
    replacements,   \* self.replacements: <<pattern, replace>> pairs in order
    mode,           \* "single", or "record" / "between" / "replay" when one
                    \* parser instance parses several documents
    script,         \* the inputs of the first document, then those left to
                    \* replay
    first_ids,      \* the stable ids of the first document's run
    other,          \* what is left to walk of the document parsed in between
    handler,        \* the CoreNLPHandler whose parse runs, or "none"
    blocks,         \* the sentences of the response parse has yet to take
    sentences,      \* the parts parse has yielded, in order
    max_docs,       \* DocPreprocessor.max_docs
    files,          \* the files generate has yet to take from _get_files
    current,        \* documents parse_file has yet to give for the open
                    \* file, or Unset when no file is open
    doc_count,      \* doc_count
    yielded,        \* number of (document, text) pairs generate has yielded
    opened,         \* number of files parse_file was called on
    gen             \* "none", "created", "suspended" (at the yield) or
                    \* "returned"

walkVars == <<table_grid, table_idx, stack, infos, nodes, tables, cells,
              contents, block_lengths, parents>>
loopVars == <<parsed, batch_end, parent_idx, position, phrase_num,
              budget, fatal, skipped, phrases, warned, trapped>>
confVars == <<docClass, batch_size, tabular, tree, flatten_delim, replacements>>
rerunVars == <<mode, script, first_ids, other>>
parserVars == <<pc, confVars, walkVars, loopVars, raised, rerunVars>>
handlerVars == <<handler, blocks, sentences>>
generateVars == <<max_docs, files, current, doc_count, yielded, opened, gen>>
vars == <<parserVars, handlerVars, generateVars>>

\* ------------------------------------------------------------- TableInfo
DocumentRef == [kind |-> docClass, ref |-> 0]
TableRef(t) == [kind |-> "Table", ref |-> t]
CellRef(c) == [kind |-> "Cell", ref |-> c]
NoneRef == [kind |-> "None", ref |-> 0]

\* TableInfo.__init__: table_grid is the default argument, one dict for all
NewTableInfo(parent) ==
    [table |-> None, cell |-> None, cell_idx |-> 0, row_idx |-> 0,
     col_idx |-> 0, parent |-> parent, cell_position |-> Unset]

\* the scan with the column cursor left where it is
FirstFree_no_scan(grid, r, c) == c

\* while self.table_grid[(self.row_idx, self.col_idx)]: self.col_idx += 1
RECURSIVE FirstFree(_, _, _)
FirstFree(grid, r, c) ==
    IF <<r, c>> \in grid THEN FirstFree(grid, r, c + 1) ELSE c

Rect(rs, re, cs, ce) == (rs..re) \X (cs..ce)

TableStableId(idx) == <<"table", idx, idx>>
CellStableId(tpos, r, c) == <<"cell", tpos, r, c>>
PhraseStableId(n) == <<"phrase", n, n>>
DocumentStableId == <<"document", 0, 0>>

\* the table index counted by each tracker, from its own start
NextTableIdx_per_tracker(tidx) == 0

\* table_idx += 1 (line 626) on the index parse_node passes in and stores
\* back into self.table_idx (line 534)
NextTableIdx(tidx) == tidx + 1

\* entering a table without emptying the grid
ClearedGrid_kept(grid) == grid

\* self.table_grid.clear() (line 627)
ClearedGrid(grid) == {}

\* TableInfo.enter_tabular(node, table_idx): the new TableInfo, grid, entity
\* lists and table_idx, and whether an AttributeError was raised
enter_tabular(ti, grid, tbls, cls, tidx, tag, rowspan, colspan) ==
    IF tag = "table" THEN
        LET idx == NextTableIdx(tidx)
            tb == [position |-> idx, stable_id |-> TableStableId(idx)]
        IN [ti |-> [ti EXCEPT !.row_idx = 0, !.cell_position = 0,
                              !.table = Len(tbls) + 1,
                              !.parent = TableRef(Len(tbls) + 1)],
            grid |-> ClearedGrid(grid), tables |-> Append(tbls, tb),
            cells |-> cls,
            table_idx |-> idx, err |-> FALSE]
    ELSE IF tag = "tr" THEN
        [ti |-> [ti EXCEPT !.col_idx = 0], grid |-> grid, tables |-> tbls,
         cells |-> cls, table_idx |-> tidx, err |-> FALSE]
    ELSE IF tag \in {"td", "th"} THEN
        LET col_start == FirstFree(grid, ti.row_idx, ti.col_idx)
            row_start == ti.row_idx
            row_end == row_start + rowspan - 1
            col_end == col_start + colspan - 1
            grid2 == grid \cup Rect(row_start, row_end, col_start, col_end)
            ti2 == [ti EXCEPT !.col_idx = col_start]
        IN IF ti.cell_position = Unset \/ ti.table = None
           THEN [ti |-> ti2, grid |-> grid2, tables |-> tbls, cells |-> cls,
                 table_idx |-> tidx, err |-> TRUE]
           ELSE LET cell == [table |-> ti.table,
                             row_start |-> row_start, row_end |-> row_end,
                             col_start |-> col_start, col_end |-> col_end,
                             position |-> ti.cell_position,
                             rowspan |-> rowspan, colspan |-> colspan,
                             stable_id |-> CellStableId(tbls[ti.table].position,
                                                        row_start, col_start)]
                IN [ti |-> [ti2 EXCEPT !.cell = Len(cls) + 1,
                                       !.parent = CellRef(Len(cls) + 1)],
                    grid |-> grid2, tables |-> tbls,
                    cells |-> Append(cls, cell),
                    table_idx |-> tidx, err |-> FALSE]
    ELSE [ti |-> ti, grid |-> grid, tables |-> tbls, cells |-> cls,
          table_idx |-> tidx, err |-> FALSE]

\* exit_tabular that leaves the row cursor where it is
exit_tabular_same_row(ti, tag) ==
    IF tag = "table" THEN
        [ti EXCEPT !.table = None, !.parent = DocumentRef]
    ELSE IF tag \in {"td", "th"} THEN
        [ti EXCEPT !.cell = None, !.col_idx = @ + 1, !.cell_idx = @ + 1,
                   !.cell_position = @ + 1,
                   !.parent = IF ti.table = None THEN NoneRef
                              ELSE TableRef(ti.table)]
    ELSE ti

\* TableInfo.exit_tabular(node)
exit_tabular(ti, tag) ==
    IF tag = "table" THEN
        [ti EXCEPT !.table = None, !.parent = DocumentRef]
    ELSE IF tag = "tr" THEN
        [ti EXCEPT !.row_idx = @ + 1]
    ELSE IF tag \in {"td", "th"} THEN
        [ti EXCEPT !.cell = None, !.col_idx = @ + 1, !.cell_idx = @ + 1,
                   !.cell_position = @ + 1,
                   !.parent = IF ti.table = None THEN NoneRef
                              ELSE TableRef(ti.table)]
    ELSE ti

\* ------------------------------------------------------------ parse_node
\* lines 539-552: a non-empty string is appended with the delimiter and a
\* block is pushed with the TableInfo's current parent
PushBlock(blk, text, parent) ==
    IF Len(text) > 0
    THEN [contents |-> blk.contents \o text \o delim,
          block_lengths |-> Append(blk.block_lengths, Len(text) + Len(delim)),
          parents |-> Append(blk.parents, parent)]
    ELSE blk

NumNonEmpty(text, tail) ==
    (IF Len(text) > 0 THEN 1 ELSE 0) + (IF Len(tail) > 0 THEN 1 ELSE 0)

\* parse_node(node, table_info) up to the loop over the children: the
\* TableInfo stack `tis` has the node's TableInfo last
VisitNode(tis, tag, text, tail, rowspan, colspan) ==
    LET r == IF tabular
             THEN enter_tabular(tis[Len(tis)], table_grid, tables, cells,
                                table_idx, tag, rowspan, colspan)
             ELSE [ti |-> [parent |-> NoneRef], grid |-> table_grid,
                   tables |-> tables, cells |-> cells,
                   table_idx |-> table_idx, err |-> FALSE]
        b0 == [contents |-> contents, block_lengths |-> block_lengths,
               parents |-> parents]
        b1 == PushBlock(b0, text, r.ti.parent)
        b2 == PushBlock(b1, tail, r.ti.parent)
    IN /\ table_grid' = r.grid
       /\ tables' = r.tables
       /\ cells' = r.cells
       /\ table_idx' = r.table_idx
       /\ infos' = IF tabular THEN [tis EXCEPT ![Len(tis)] = r.ti] ELSE infos
       /\ nodes' = nodes + 1
       /\ IF r.err
          THEN /\ pc' = "failed"
               /\ raised' = "AttributeError"
               /\ stack' = stack
               /\ UNCHANGED <<contents, block_lengths, parents>>
          ELSE /\ pc' = "walk"
               /\ raised' = raised
               /\ stack' = Append(stack, tag)
               /\ contents' = b2.contents
               /\ block_lengths' = b2.block_lengths
               /\ parents' = IF tabular THEN b2.parents ELSE parents

\* line 570: the tree comes from lxml's HTML parser, in which the start tag
\* of a td / th closes an open td / th and that of a tr closes an open tr,
\* td or th: these never are the direct parent of such a child
Nestable(parentTag, tag) ==
    /\ tag \in {"td", "th"} => parentTag \notin {"td", "th"}
    /\ tag = "tr" => parentTag \notin {"tr", "td", "th"}

\* parse_structure lines 487-501 and 570-573: reset the per-document state
\* and call parse_node on the root (an lxml root has no tail)
ParseRoot(tag, text, rowspan, colspan) ==
    /\ pc = "idle"
    /\ NumNonEmpty(text, <<>>) <= MaxBlocks
    /\ tag \in {"td", "th"} \/ (rowspan = 1 /\ colspan = 1)
    /\ VisitNode(IF tabular THEN <<NewTableInfo(DocumentRef)>> ELSE <<>>,
                 tag, text, <<>>, rowspan, colspan)
    /\ UNCHANGED <<confVars, loopVars>>

\* the node's text and tail keep the block list within MaxBlocks
BlocksFit(text, tail) ==
    Len(block_lengths) + NumNonEmpty(text, tail) <= MaxBlocks

\* line 562 with table_info None: TableInfo(document=table_info.document)
\* raises AttributeError before the child is parsed
NoTableInfo ==
    /\ pc' = "failed"
    /\ raised' = "AttributeError"
    /\ UNCHANGED walkVars

\* lines 560-564: parse_node on the next child of the innermost open node;
\* a child tagged table gets a fresh TableInfo
ParseChild(tag, text, tail, rowspan, colspan) ==
    /\ pc = "walk"
    /\ Len(stack) < MaxDepth
    /\ Nestable(stack[Len(stack)], tag)
    /\ tag \in {"td", "th"} \/ (rowspan = 1 /\ colspan = 1)
    /\ IF tag = "table" /\ ~tabular THEN NoTableInfo
       ELSE VisitNode(IF tag = "table"
                      THEN Append(infos, NewTableInfo(NoneRef)) ELSE infos,
                      tag, text, tail, rowspan, colspan)
    /\ UNCHANGED <<confVars, loopVars>>

\* lines 566-567: the children are done, exit_tabular; a child table's
\* TableInfo is dropped on return; leaving the root ends the walk, lines
\* 576-580 initialise the batching loop and line 581 tests the buffer
ExitNode ==
    /\ pc = "walk"
    /\ LET tag == stack[Len(stack)]
           ti == exit_tabular(infos[Len(infos)], tag)
       IN /\ stack' = SubSeq(stack, 1, Len(stack) - 1)
          /\ infos' = IF ~tabular THEN infos
                      ELSE IF tag = "table" /\ Len(stack) > 1
                      THEN SubSeq(infos, 1, Len(infos) - 1)
                      ELSE [infos EXCEPT ![Len(infos)] = ti]
          /\ pc' = IF Len(stack) > 1 THEN "walk"
                   ELSE IF 0 < Len(contents) THEN "batch" ELSE "done"
    /\ UNCHANGED <<confVars, table_grid, table_idx, nodes,
                   tables, cells, contents, block_lengths, parents,
                   loopVars, raised>>

\* ------------------------------------------------------ the batching loop
Min(a, b) == IF a <= b THEN a ELSE b

\* s[lo:hi] of Python, for 0 <= lo
Slice(s, lo, hi) == SubSeq(s, lo + 1, Min(hi, Len(s)))

\* s.rfind(d): 0-based index of the last occurrence of d in s, or -1
rfind(s, d) ==
    LET occ == {i \in 0..(Len(s) - Len(d)) : SubSeq(s, i + 1, i + Len(d)) = d}
    IN IF occ = {} THEN -1 ELSE CHOOSE i \in occ : \A j \in occ : j <= i

\* np.cumsum(block_lengths)[k], k 0-based
RECURSIVE CumSum(_, _)
CumSum(s, k) == IF k < 0 THEN 0 ELSE s[k + 1] + CumSum(s, k - 1)

block_char_end(k) == CumSum(block_lengths, k)
content_length == Len(contents)

\* the boundary put at the start of the last delimiter found
BatchEnd_before_delim(cont, from, size) ==
    from + rfind(Slice(cont, from, from + size), delim) + 1

\* the boundary searched in a window one character short
BatchEnd_short_window(cont, from, size) ==
    from + rfind(Slice(cont, from, from + size - 1), delim) + Len(delim)

\* lines 582-584
BatchEnd(cont, from, size) ==
    from + rfind(Slice(cont, from, from + size), delim) + Len(delim)

\* the characters of text that are not inside a complete delimiter: the
\* annotator discards the delimiters and ends its units on the others
InDelim(text, p) ==
    \E i \in 0..(Len(text) - Len(delim)) :
        /\ SubSeq(text, i + 1, i + Len(delim)) = delim
        /\ p \in (i + 1)..(i + Len(delim))
UnitEnds(text) == {p \in 1..Len(text) : ~InDelim(text, p)}

RECURSIVE SetToSeq(_)
SetToSeq(S) ==
    IF S = {} THEN <<>>
    ELSE LET m == CHOOSE x \in S : \A y \in S : x <= y
         IN <<m>> \o SetToSeq(S \ {m})

\* len(text.strip()) == 0 (line 280)
IsBlank(text) == \A i \in 1..Len(text) : text[i] = " "

Responses == {"sentences", "malformed", "too long", "timed out"}

TooLongError == "ValueError: File <document.name> too long"
TimedOutError == "ValueError: CoreNLP request timed out on file <document.name>"

\* parse with the two fatal conditions handled like a malformed response
parse_absorbing(resp) ==
    IF resp \in {"too long", "timed out", "malformed"}
    THEN [raise |-> "none", warn |-> TRUE, sentences |-> FALSE]
    ELSE [raise |-> "none", warn |-> FALSE, sentences |-> TRUE]

\* parse without the try around json.loads
parse_unguarded(resp) ==
    IF resp = "too long"
    THEN [raise |-> TooLongError, warn |-> FALSE, sentences |-> FALSE]
    ELSE IF resp = "timed out"
    THEN [raise |-> TimedOutError, warn |-> FALSE, sentences |-> FALSE]
    ELSE IF resp = "malformed"
    THEN [raise |-> "ValueError: No JSON object could be decoded",
          warn |-> FALSE, sentences |-> FALSE]
    ELSE [raise |-> "none", warn |-> FALSE, sentences |-> TRUE]

\* CoreNLPHandler.parse lines 286-295 on the server's response: the error it
\* raises, whether it warns, and whether it goes on to yield the sentences
parse(resp) ==
    IF resp = "too long"
    THEN [raise |-> TooLongError, warn |-> FALSE, sentences |-> FALSE]
    ELSE IF resp = "timed out"
    THEN [raise |-> TimedOutError, warn |-> FALSE, sentences |-> FALSE]
    ELSE IF resp = "malformed"
    THEN [raise |-> "none", warn |-> TRUE, sentences |-> FALSE]
    ELSE [raise |-> "none", warn |-> FALSE, sentences |-> TRUE]

\* lines 588-590: the pointer walk; IndexError when it runs off the table
RECURSIVE Advance(_, _, _)
Advance(pidx, pos, target) ==
    IF pidx >= Len(block_lengths) THEN [idx |-> pidx, position |-> pos,
                                        err |-> TRUE]
    ELSE IF target > block_char_end(pidx) THEN Advance(pidx + 1, 0, target)
    ELSE [idx |-> pidx, position |-> pos, err |-> FALSE]

\* apply_tabular without the branch for a Table parent
apply_tabular_no_table(parts, parent, pos) ==
    LET p1 == [parts EXCEPT !.position = pos]
    IN IF parent.kind = "Document" THEN [parts |-> p1, err |-> FALSE]
       ELSE IF parent.kind = "Cell"
       THEN LET c == cells[parent.ref]
            IN [parts |-> [p1 EXCEPT !.table = c.table, !.cell = parent.ref,
                                      !.span = <<c.row_start, c.row_end,
                                                 c.col_start, c.col_end>>],
                err |-> FALSE]
       ELSE [parts |-> p1, err |-> TRUE]

\* TableInfo.apply_tabular(parts, parent, position)
apply_tabular(parts, parent, pos) ==
    LET p1 == [parts EXCEPT !.position = pos]
    IN IF parent.kind = "Document" THEN [parts |-> p1, err |-> FALSE]
       ELSE IF parent.kind = "Table"
       THEN [parts |-> [p1 EXCEPT !.table = parent.ref], err |-> FALSE]
       ELSE IF parent.kind = "Cell"
       THEN LET c == cells[parent.ref]
            IN [parts |-> [p1 EXCEPT !.table = c.table, !.cell = parent.ref,
                                      !.span = <<c.row_start, c.row_end,
                                                 c.col_start, c.col_end>>],
                err |-> FALSE]
       ELSE [parts |-> p1, err |-> TRUE]

\* the outcomes of pdb.set_trace() in the bare except of line 605-606: the
\* debugger continues, and the loop goes on to the next unit, or it quits,
\* and BdbQuit leaves parse_structure
Debugger == {"continue", "quit"}

\* lines 586-606 for the units us[i..] of the batch that starts at `parsed`;
\* dbg[i] is what the debugger does if unit i enters the except handler;
\* st holds the loop's locals, the Phrases yielded and the error raised
RECURSIVE ReconcileUnits(_, _, _, _)
ReconcileUnits(us, dbg, i, st) ==
    IF i > Len(us) \/ st.raised # "none" THEN st
    ELSE
      LET char_end == us[i]
          a == Advance(st.parent_idx, st.position, parsed + char_end)
          parts == [block |-> a.idx, end |-> parsed + char_end,
                    phrase_num |-> st.phrase_num,
                    stable_id |-> PhraseStableId(st.phrase_num),
                    position |-> Unset, parent |-> NoneRef,
                    table |-> None, cell |-> None, span |-> <<>>]
          t == IF a.err THEN [parts |-> parts, err |-> TRUE]
               ELSE IF ~tabular THEN [parts |-> parts, err |-> FALSE]
               ELSE apply_tabular([parts EXCEPT !.parent = parents[a.idx + 1]],
                                  parents[a.idx + 1], a.position)
          next == IF t.err
                  THEN [st EXCEPT !.parent_idx = a.idx,
                                  !.position = a.position,
                                  !.trapped = Append(@, st.phrase_num),
                                  !.raised = IF dbg[i] = "quit" THEN "BdbQuit"
                                             ELSE "none"]
                  ELSE [st EXCEPT !.parent_idx = a.idx,
                                  !.position = a.position + 1,
                                  !.phrase_num = @ + 1,
                                  !.phrases = Append(@, t.parts)]
      IN ReconcileUnits(us, dbg, i + 1, next)

\* the loop's locals with parent_idx and position initialised again for
\* every batch
LoopLocals_per_batch ==
    [parent_idx |-> 0, position |-> 0,
     phrase_num |-> phrase_num, phrases |-> phrases,
     trapped |-> trapped, raised |-> "none"]

\* the loop's locals with phrase_num initialised again for every batch
LoopLocals_numbered_per_batch ==
    [parent_idx |-> parent_idx, position |-> position,
     phrase_num |-> 0, phrases |-> phrases,
     trapped |-> trapped, raised |-> "none"]

\* lines 577-580: parsed, parent_idx, position and phrase_num are
\* initialised once, before the while loop, and carried from batch to batch
LoopLocals ==
    [parent_idx |-> parent_idx, position |-> position,
     phrase_num |-> phrase_num, phrases |-> phrases,
     trapped |-> trapped, raised |-> "none"]

\* line 607 and the while test of line 581: the batch is consumed, and the
\* generator returns when the buffer is
AfterBatch(be) ==
    /\ parsed' = be
    /\ pc' = IF be < content_length THEN "batch" ELSE "done"

\* one iteration of the while loop, lines 581-607, with CoreNLPHandler.parse
\* lines 280-295: the batch boundary, the annotator's request, and the
\* reconciliation of every unit of its response
ProcessBatchWith(resp, ends, dbg) ==
    /\ pc = "batch"
    /\ parsed < content_length
    /\ LET be == BatchEnd(contents, parsed, batch_size)
           text == Slice(contents, parsed, be)
           r == parse(resp)
           st0 == LoopLocals
       IN /\ batch_end' = be
          /\ IF IsBlank(text)
             THEN /\ resp = "sentences"
                  /\ AfterBatch(be)
                  /\ UNCHANGED <<raised, warned, budget, fatal, skipped,
                                 parent_idx, position, phrase_num, phrases,
                                 trapped>>
             ELSE /\ fatal' = (fatal \/ resp \in {"too long", "timed out"})
                  /\ skipped' = IF resp = "malformed" THEN <<parsed, be>>
                                ELSE skipped
                  /\ IF r.raise # "none"
                     THEN /\ pc' = "failed"
                          /\ raised' = r.raise
                          /\ UNCHANGED <<parsed, warned, budget, parent_idx,
                                         position, phrase_num, phrases,
                                         trapped>>
                     ELSE IF ~r.sentences
                     THEN /\ warned' = warned + (IF r.warn THEN 1 ELSE 0)
                          /\ AfterBatch(be)
                          /\ UNCHANGED <<raised, budget, parent_idx,
                                         position, phrase_num, phrases,
                                         trapped>>
                     ELSE   LET res == ReconcileUnits(SetToSeq(ends), dbg,
                                                      1, st0)
                            IN /\ Cardinality(ends) <= budget
                               /\ budget' = budget - Cardinality(ends)
                               /\ parent_idx' = res.parent_idx
                               /\ position' = res.position
                               /\ phrase_num' = res.phrase_num
                               /\ phrases' = res.phrases
                               /\ trapped' = res.trapped
                               /\ warned' = warned
                               /\ IF res.raised # "none"
                                  THEN /\ pc' = "failed"
                                       /\ raised' = res.raised
                                       /\ parsed' = parsed
                                  ELSE /\ AfterBatch(be)
                                       /\ raised' = raised
    /\ UNCHANGED <<confVars, walkVars>>

\* the text of the batch that starts at `parsed`
BatchText == Slice(contents, parsed, BatchEnd(contents, parsed, batch_size))

\* the same iteration, the annotator choosing where its units end and the
\* debugger what it does at each unit
ProcessBatch(resp) ==
    \E ends \in SUBSET UnitEnds(BatchText) :
    \E dbg \in [1..Cardinality(ends) -> Debugger] :
        /\ resp # "sentences" => ends = {}
        /\ ProcessBatchWith(resp, ends, dbg)

\* -------------------------------------------- the walk of a whole tree
\* a node of the lxml tree: tag, text, tail (<<>> for None) and children
Node(tag, text, tail, children) ==
    [tag |-> tag, text |-> text, tail |-> tail, children |-> children]

\* OmniParser's defaults (lines 388-392): blacklist, flatten (br left out),
\* strip
blacklist == {"style"}
FlattenSet == {"span"}
strip == TRUE

\* the flatten delimiters a caller configures: the default '' and ' '
FlattenDelims == {<<>>, <<" ">>}

\* a caller's rule list that deletes a character ("x" stands for it)
DeletingReplacements == << <<"x", <<>> >> >>
ReplacementLists == {DefaultReplacements, DeletingReplacements}

\* text.strip()
RECURSIVE LStrip(_)
LStrip(text) ==
    IF text # <<>> /\ Head(text) = " " THEN LStrip(Tail(text)) ELSE text

RECURSIVE RStrip(_)
RStrip(text) ==
    IF text # <<>> /\ text[Len(text)] = " "
    THEN RStrip(SubSeq(text, 1, Len(text) - 1)) ELSE text

Strip(text) == RStrip(LStrip(text))

\* rgx.sub(replace, text) for a pattern that matches one character
RECURSIVE Sub(_, _, _)
Sub(pattern, replace, text) ==
    IF text = <<>> THEN <<>>
    ELSE (IF Head(text) = pattern THEN replace ELSE <<Head(text)>>)
         \o Sub(pattern, replace, Tail(text))

\* lines 545-546: the rules applied in order
RECURSIVE ApplyReplacements(_, _)
ApplyReplacements(text, rules) ==
    IF rules = <<>> THEN text
    ELSE ApplyReplacements(Sub(Head(rules)[1], Head(rules)[2], text),
                           Tail(rules))

\* d.join(parts)
RECURSIVE JoinSeq(_, _)
JoinSeq(parts, d) ==
    IF parts = <<>> THEN <<>>
    ELSE IF Len(parts) = 1 THEN parts[1]
    ELSE parts[1] \o d \o JoinSeq(Tail(parts), d)

\* child.getiterator(): the node, then its descendants, in document order
RECURSIVE Iter(_)
RECURSIVE IterAll(_)
Iter(node) == <<node>> \o IterAll(node.children)
IterAll(children) ==
    IF children = <<>> THEN <<>>
    ELSE Iter(Head(children)) \o IterAll(Tail(children))

\* the pieces collected without the tails
RECURSIVE Pieces_without_tails(_)
Pieces_without_tails(ds) ==
    IF ds = <<>> THEN <<>>
    ELSE (IF IsBlank(Head(ds).text) THEN <<>> ELSE <<Head(ds).text>>)
         \o Pieces_without_tails(Tail(ds))

\* lines 512-516: the text and the tail of every descendant that are not
\* blank, the tail right after the text
RECURSIVE Pieces(_)
Pieces(ds) ==
    IF ds = <<>> THEN <<>>
    ELSE (IF IsBlank(Head(ds).text) THEN <<>> ELSE <<Head(ds).text>>)
         \o (IF IsBlank(Head(ds).tail) THEN <<>> ELSE <<Head(ds).tail>>)
         \o Pieces(Tail(ds))

\* lines 511-516: contents = [''] and the pieces of the child's subtree
FlattenContents(child) == << <<>> >> \o Pieces(Iter(child))

RemoveAt(seq, j) == SubSeq(seq, 1, j - 1) \o SubSeq(seq, j + 1, Len(seq))

\* lines 508-525 for the children j, j-1, .., 1 (node[::-1]): a child in
\* the flatten set is joined into the text of the node (first child) or
\* into the tail of the child before it, and removed with its tail
RECURSIVE FlattenFrom(_, _)
FlattenFrom(node, j) ==
    IF j = 0 THEN node
    ELSE
      LET child == node.children[j]
          joined == JoinSeq(FlattenContents(child), flatten_delim)
      IN IF child.tag \notin FlattenSet THEN FlattenFrom(node, j - 1)
         ELSE IF j = 1
         THEN FlattenFrom([node EXCEPT !.text = @ \o joined,
                                       !.children = RemoveAt(@, j)], j - 1)
         ELSE FlattenFrom([node EXCEPT
                              !.children = RemoveAt(
                                  [@ EXCEPT ![j - 1].tail = @ \o joined], j)],
                          j - 1)

flatten(node) == FlattenFrom(node, Len(node.children))

\* lines 539-549 for one field: strip, the test of len(text), then the
\* replacements, and the block
PushField(acc, text) ==
    LET stripped == IF strip THEN Strip(text) ELSE text
        replaced == ApplyReplacements(stripped, replacements)
    IN IF Len(stripped) > 0
       THEN [contents |-> acc.contents \o replaced \o delim,
             block_lengths |-> Append(acc.block_lengths,
                                      Len(replaced) + Len(delim))]
       ELSE acc

\* parse_node lines 527-564 with tabular and structural off: blacklist,
\* flatten, text and tail, then the children
RECURSIVE parse_node(_, _)
RECURSIVE parse_children(_, _)
parse_node(node, acc) ==
    IF node.tag \in blacklist THEN acc
    ELSE LET flat == IF FlattenSet # {} THEN flatten(node) ELSE node
         IN parse_children(flat.children,
                           PushField(PushField(acc, flat.text), flat.tail))
parse_children(children, acc) ==
    IF children = <<>> THEN acc
    ELSE parse_children(Tail(children), parse_node(Head(children), acc))

\* parse_structure lines 486-573 on a tree given as a whole
WalkTree ==
    /\ pc = "idle"
    /\ tree # NoTree
    /\ LET acc == parse_node(tree, [contents |-> <<>>, block_lengths |-> <<>>])
       IN /\ contents' = acc.contents
          /\ block_lengths' = acc.block_lengths
    /\ pc' = "walked"
    /\ UNCHANGED <<confVars, table_grid, table_idx, stack, infos, nodes,
                   tables, cells, parents, loopVars, raised>>

\* ------------------------------------------- the whitespace tokenizer
\* int(1e6), the batch size when lingual is off: more than any buffer here
TokenizerBatch == MaxBlocks * (MaxTextLen + Len(delim)) + 1

\* text.split(d): the pieces of text between the occurrences of d
RECURSIVE Split(_, _)
Split(text, d) ==
    LET occ == {i \in 0..(Len(text) - Len(d)) :
                    SubSeq(text, i + 1, i + Len(d)) = d}
    IN IF occ = {} THEN <<text>>
       ELSE LET i == CHOOSE x \in occ : \A y \in occ : x <= y
            IN <<SubSeq(text, 1, i)>>
               \o Split(SubSeq(text, i + Len(d) + 1, Len(text)), d)

\* SimpleTokenizer.parse lines 369-382 and line 586: one unit for every
\* piece that is not blank, with stable id <doc>::phrase:i:i, whose last
\* field is what parse_structure takes as char_end
RECURSIVE TokenizerUnits(_, _)
TokenizerUnits(pieces, i) ==
    IF pieces = <<>> THEN <<>>
    ELSE IF IsBlank(Head(pieces)) THEN TokenizerUnits(Tail(pieces), i)
    ELSE <<PhraseStableId(i)[3]>> \o TokenizerUnits(Tail(pieces), i + 1)

\* one iteration of the while loop, lines 581-607, when lingual is off and
\* lingual_parse is SimpleTokenizer.parse
TokenizeBatch(dbg) ==
    /\ pc = "batch"
    /\ parsed < content_length
    /\ LET be == BatchEnd(contents, parsed, batch_size)
           us == TokenizerUnits(Split(Slice(contents, parsed, be), delim), 0)
           res == ReconcileUnits(us, dbg, 1, LoopLocals)
       IN /\ dbg \in [1..Len(us) -> Debugger]
          /\ batch_end' = be
          /\ parent_idx' = res.parent_idx
          /\ position' = res.position
          /\ phrase_num' = res.phrase_num
          /\ phrases' = res.phrases
          /\ trapped' = res.trapped
          /\ IF res.raised # "none"
             THEN /\ pc' = "failed"
                  /\ raised' = res.raised
                  /\ parsed' = parsed
             ELSE /\ AfterBatch(be)
                  /\ raised' = raised
    /\ UNCHANGED <<confVars, walkVars, budget, fatal, skipped, warned>>

\* ----------------------------------------------------------- specification
InitParser ==
    /\ pc = "idle"
    /\ table_grid = {}
    /\ table_idx = -1
    /\ stack = <<>>
    /\ infos = <<>>
    /\ nodes = 0
    /\ tables = <<>>
    /\ cells = <<>>
    /\ contents = <<>>
    /\ block_lengths = <<>>
    /\ parents = <<>>
    /\ parsed = 0
    /\ batch_end = 0
    /\ parent_idx = 0
    /\ position = 0
    /\ phrase_num = 0
    /\ fatal = FALSE
    /\ skipped = <<>>
    /\ phrases = <<>>
    /\ warned = 0
    /\ trapped = <<>>
    /\ raised = "none"
    /\ first_ids = <<>>
    /\ other = <<>>

\* no CoreNLPHandler.parse and no DocPreprocessor.generate under way
NoHandler == handler = "none" /\ blocks = <<>> /\ sentences = <<>>

NoGenerator ==
    /\ max_docs = NoLimit
    /\ files = <<>>
    /\ current = Unset
    /\ doc_count = 0
    /\ yielded = 0
    /\ opened = 0
    /\ gen = "none"

InitState == InitParser /\ NoHandler /\ NoGenerator

\* one document, given node by node, with the default flatten delimiter
\* and replacement rule
InitSingle ==
    /\ InitState
    /\ tabular = TRUE
    /\ budget = MaxUnits
    /\ tree = NoTree
    /\ flatten_delim = <<>>
    /\ replacements = DefaultReplacements
    /\ mode = "single"
    /\ script = <<>>

Init ==
    /\ InitSingle
    /\ docClass \in DocClasses
    /\ batch_size \in BatchSizes

\* a behaviour with a single document leaves the bookkeeping of reruns alone
Single == UNCHANGED <<rerunVars, handlerVars, generateVars>>

\* the whole pipeline on small trees without spans
Next ==
    \/ \E tag \in PipelineTags, text \in Texts :
          ParseRoot(tag, text, 1, 1) /\ Single
    \/ \E tag \in PipelineTags, text \in Texts, tail \in Texts :
          /\ nodes < MaxNodes /\ BlocksFit(text, tail)
          /\ ParseChild(tag, text, tail, 1, 1) /\ Single
    \/ ExitNode /\ Single
    \/ \E resp \in Responses : ProcessBatch(resp) /\ Single

InitDocument == Init /\ docClass = "Document"

Spec == InitDocument /\ [][Next]_vars

\* the same pipeline when the caller passes as `document` an object that
\* is not an instance of the Document class apply_tabular tests for
InitForeign == Init /\ docClass = "Other"

SpecForeign == InitForeign /\ [][Next]_vars

\* the walk of larger trees with spans and without text: the table geometry
InitGrid == Init /\ docClass = "Document" /\ batch_size = LargeBatch

NextGrid ==
    \/ \E tag \in Tags, rs \in Spans, cs \in Spans :
          ParseRoot(tag, <<>>, rs, cs) /\ Single
    \/ \E tag \in Tags, rs \in Spans, cs \in Spans :
          nodes < MaxGridNodes /\ ParseChild(tag, <<>>, <<>>, rs, cs) /\ Single
    \/ ExitNode /\ Single

SpecGrid == InitGrid /\ [][NextGrid]_vars

\* the trees walked as a whole: a root with text, up to two children, the
\* first of them with up to one child; the text runs are the letters a..g
\* in document order (a the root's text, b the first child's text, c and d
\* the grandchild's text and tail, e the first child's tail, f and g the
\* second child's text and tail), each present or not; the root's text
\* also takes forms that strip and the replacements change
TreeTags == {"div", "span", "style"}
RootTexts == {<<>>, <<"a">>, <<" ", "a", " ">>, <<" ">>, <<"x">>, <<"~">>}
Run(ch) == {<<>>, <<ch>>}
GrandChildren ==
    {<<>>} \cup {<<Node(t, x, y, <<>>)>> :
                    t \in TreeTags, x \in Run("c"), y \in Run("d")}
FirstChildren ==
    {<<>>} \cup {<<Node(t, x, y, k)>> :
                    t \in TreeTags, x \in Run("b"), y \in Run("e"),
                    k \in GrandChildren}
SecondChildren ==
    {<<>>} \cup {<<Node(t, x, y, <<>>)>> :
                    t \in TreeTags, x \in Run("f"), y \in Run("g")}

\* <p>Hello<span>there</span>!</p>
HelloTree ==
    Node("p", <<"H", "e", "l", "l", "o">>, <<>>,
         <<Node("span", <<"t", "h", "e", "r", "e">>, <<"!">>, <<>>)>>)

Trees ==
    {Node(t, x, <<>>, k1 \o k2) :
        t \in TreeTags, x \in RootTexts,
        k1 \in FirstChildren, k2 \in SecondChildren}
    \cup {HelloTree}

\* the walker on a whole tree, for every flatten delimiter and rule list
InitTree ==
    /\ InitState
    /\ tabular = TRUE
    /\ budget = MaxUnits
    /\ docClass = "Document"
    /\ batch_size = LargeBatch
    /\ tree \in Trees
    /\ flatten_delim \in FlattenDelims
    /\ replacements \in ReplacementLists
    /\ mode = "single"
    /\ script = <<>>

NextTree == WalkTree /\ Single

SpecTree == InitTree /\ [][NextTree]_vars

\* the pipeline with lingual off: the whitespace tokenizer and its batch
\* size
InitTokenizer ==
    /\ InitSingle
    /\ docClass = "Document"
    /\ batch_size = TokenizerBatch

NextTokenizer ==
    \/ \E tag \in PipelineTags, text \in Texts :
          ParseRoot(tag, text, 1, 1) /\ Single
    \/ \E tag \in PipelineTags, text \in Texts, tail \in Texts :
          /\ nodes < MaxNodes /\ BlocksFit(text, tail)
          /\ ParseChild(tag, text, tail, 1, 1) /\ Single
    \/ ExitNode /\ Single
    \/ \E dbg \in UNION {[1..n -> Debugger] : n \in 0..MaxBlocks} :
          TokenizeBatch(dbg) /\ Single

SpecTokenizer == InitTokenizer /\ [][NextTokenizer]_vars

\* the walk of small trees whose cells span up to MaxSpan rows and
\* MaxSpan + 1 columns
NextCells ==
    \/ \E tag \in Tags, rs \in Spans, cs \in ColSpans :
          ParseRoot(tag, <<>>, rs, cs) /\ Single
    \/ \E tag \in Tags, rs \in Spans, cs \in ColSpans :
          nodes < MaxCellNodes /\ ParseChild(tag, <<>>, <<>>, rs, cs) /\ Single
    \/ ExitNode /\ Single

SpecCells == InitGrid /\ [][NextCells]_vars

\* the walk of small trees whose rowspan / colspan attributes take every
\* value of AttrSpans
NextAttrs ==
    \/ \E tag \in Tags, rs \in AttrSpans, cs \in AttrSpans :
          ParseRoot(tag, <<>>, rs, cs) /\ Single
    \/ \E tag \in Tags, rs \in AttrSpans, cs \in AttrSpans :
          nodes < MaxCellNodes /\ ParseChild(tag, <<>>, <<>>, rs, cs) /\ Single
    \/ ExitNode /\ Single

SpecAttrs == InitGrid /\ [][NextAttrs]_vars

\* the stable identifiers of the document's entities, in creation order
StableIds ==
    <<DocumentStableId>>
    \o [i \in 1..Len(tables) |-> tables[i].stable_id]
    \o [i \in 1..Len(cells) |-> cells[i].stable_id]
    \o [i \in 1..Len(phrases) |-> phrases[i].stable_id]

\* the pipeline with tabular mode enabled or disabled
InitPlain ==
    /\ InitState
    /\ tabular \in BOOLEAN
    /\ budget = MaxUnits
    /\ docClass = "Document"
    /\ batch_size = LargeBatch
    /\ tree = NoTree
    /\ flatten_delim = <<>>
    /\ replacements = DefaultReplacements
    /\ mode = "single"
    /\ script = <<>>

SpecPlain == InitPlain /\ [][Next]_vars

\* the pipeline for batch sizes that are the length of the shortest block,
\* that of the longest, and LargeBatch
BlockBatchSizes == {Len(delim) + 1, Len(delim) + MaxTextLen, LargeBatch}

InitBatches ==
    /\ InitSingle
    /\ docClass = "Document"
    /\ batch_size \in BlockBatchSizes

SpecBatches == InitBatches /\ [][Next]_vars

\* the pipeline for batch sizes from 1 on; the annotator answers every
\* request, so the loop goes on to its next iteration
AnyBatchSizes == {1, SmallBatch, LargeBatch}

InitAnyBatch ==
    /\ InitSingle
    /\ docClass = "Document"
    /\ batch_size \in AnyBatchSizes

\* one iteration of the loop, the annotator returning at most one unit
LoopStep ==
    \E resp \in Responses :
    \E ends \in {{}} \cup {{e} : e \in UnitEnds(BatchText)} :
    \E dbg \in [1..Cardinality(ends) -> Debugger] :
        /\ resp # "sentences" => ends = {}
        /\ ProcessBatchWith(resp, ends, dbg)
        /\ Single

\* documents of div elements: the tables play no part in the loop
NextAnyBatch ==
    \/ \E text \in Texts : ParseRoot("div", text, 1, 1) /\ Single
    \/ \E text \in Texts, tail \in Texts :
          /\ nodes < MaxNodes /\ BlocksFit(text, tail)
          /\ ParseChild("div", text, tail, 1, 1) /\ Single
    \/ ExitNode /\ Single
    \/ LoopStep

SpecAnyBatch == InitAnyBatch /\ [][NextAnyBatch]_vars /\ WF_vars(LoopStep)

\* ------------------------------------------------ DocPreprocessor.generate
\* a parser that is not used
ParserUnused ==
    /\ InitParser
    /\ tabular = TRUE
    /\ budget = MaxUnits
    /\ docClass = "Document"
    /\ batch_size = LargeBatch
    /\ tree = NoTree
    /\ flatten_delim = <<>>
    /\ replacements = DefaultReplacements
    /\ mode = "single"
    /\ script = <<>>

\* a file: whether _can_read accepts its name and how many (document, text)
\* pairs parse_file gives for it
Files == [readable : BOOLEAN, docs : 0..MaxDocsPerFile]

RECURSIVE SeqsUpTo(_, _)
SeqsUpTo(S, n) ==
    IF n = 0 THEN {<<>>}
    ELSE SeqsUpTo(S, n - 1)
         \cup {Append(q, x) : q \in SeqsUpTo(S, n - 1), x \in S}

\* lines 81-85 from the for statement of the open file on: parse_file gives
\* the next pair of the open file, or the loop of line 81 takes the next
\* file, until a pair is there to yield or the files are exhausted
RECURSIVE NextPair(_, _, _)
NextPair(cur, fs, n) ==
    IF cur # Unset /\ cur > 0
    THEN [found |-> TRUE, current |-> cur - 1, files |-> fs, opened |-> n]
    ELSE IF fs = <<>>
    THEN [found |-> FALSE, current |-> Unset, files |-> fs, opened |-> n]
    ELSE IF Head(fs).readable
    THEN NextPair(Head(fs).docs, Tail(fs), n + 1)
    ELSE NextPair(Unset, Tail(fs), n)

\* doc_count >= self.max_docs (line 87)
LimitReached(count, limit) == limit # NoLimit /\ count >= limit

\* one next() on the generator: from its start, or from the yield of line
\* 85 (lines 86-88 first), to the next yield or to its return
GenerateNext ==
    /\ gen \in {"created", "suspended"}
    /\ LET count == IF gen = "suspended" THEN doc_count + 1 ELSE doc_count
           r == NextPair(current, files, opened)
       IN /\ doc_count' = count
          /\ IF gen = "suspended" /\ LimitReached(count, max_docs)
             THEN /\ gen' = "returned"
                  /\ UNCHANGED <<files, current, yielded, opened>>
             ELSE /\ files' = r.files
                  /\ current' = r.current
                  /\ opened' = r.opened
                  /\ yielded' = IF r.found THEN yielded + 1 ELSE yielded
                  /\ gen' = IF r.found THEN "suspended" ELSE "returned"
    /\ UNCHANGED <<max_docs, parserVars, handlerVars>>

InitGenerate ==
    /\ ParserUnused
    /\ NoHandler
    /\ max_docs \in (0..MaxDocsLimit) \cup {NoLimit}
    /\ files \in SeqsUpTo(Files, MaxFiles) \ {<<>>}
    /\ current = Unset
    /\ doc_count = 0
    /\ yielded = 0
    /\ opened = 0
    /\ gen = "created"

SpecGenerate == InitGenerate /\ [][GenerateNext]_vars

\* ---------------------------------------------------- CoreNLPHandler.parse
Handlers == {"fonduer", "snorkel"}

\* PTB = {'-LRB-': '(', ...} and PTB.get(w, w)
PTB(w) == IF w = "-LRB-" THEN "(" ELSE w

\* len() of the strings that occur as words
StrLen(w) == IF w = "-LRB-" THEN 5 ELSE 1

\* tok['word'].replace(u"\x00", " "): the words here hold no such character
ReplaceNul(w) == w

\* the tokens of a response: a word and a left bracket in its PTB form
TokenKinds ==
    { [word |-> "a", lemma |-> "a", pos |-> "NN", ner |-> "O"],
      [word |-> "-LRB-", lemma |-> "-LRB-", pos |-> "-LRB-", ner |-> "O"] }

\* a sentence of n tokens that starts at offset `start`, its tokens two
\* characters apart; its basic dependencies list the tokens in order or in
\* reverse order, the first token being the root
SentenceOf(kinds, start, reversed) ==
    LET n == Len(kinds)
        at(i) == IF reversed THEN n + 1 - i ELSE i
    IN [tokens |-> [i \in 1..n |->
                      [word |-> kinds[i].word, lemma |-> kinds[i].lemma,
                       pos |-> kinds[i].pos, ner |-> kinds[i].ner,
                       characterOffsetBegin |-> start + 2 * (i - 1)]],
        deps |-> [i \in 1..n |->
                    [governor |-> IF at(i) = 1 THEN 0 ELSE 1,
                     dep |-> IF at(i) = 1 THEN "ROOT" ELSE "dep",
                     dependent |-> at(i)]]]

SentenceSet ==
    {SentenceOf(k, st, rv) :
        k \in SeqsUpTo(TokenKinds, MaxTokens) \ {<<>>},
        st \in {0, 1}, rv \in BOOLEAN}

\* zip(a, b)
Zip(a, b) == [i \in 1..Min(Len(a), Len(b)) |-> <<a[i], b[i]>>]

\* sort_X_on_Y(X, Y) of snorkel.utils: the elements of X in the order of
\* their keys in Y
RECURSIVE sort_X_on_Y(_, _)
sort_X_on_Y(X, Y) ==
    IF Len(X) = 0 \/ Len(Y) = 0 THEN <<>>
    ELSE LET n == Min(Len(X), Len(Y))
             m == CHOOSE i \in 1..n : \A j \in 1..n : Y[i] <= Y[j]
             rest(q) == [i \in 1..(n - 1) |-> IF i < m THEN q[i] ELSE q[i + 1]]
         IN <<X[m]>> \o sort_X_on_Y(rest(X), rest(Y))

\* lines 300-309 of fonduer, 452-466 of snorkel: the arrays after the loop
\* over zip(tokens, basic-dependencies); snorkel appends each word twice,
\* converted and replaced, and the replaced lemma under the key 'lemma'
RECURSIVE TokenArrays(_, _, _, _)
TokenArrays(h, pairs, i, acc) ==
    IF i > Len(pairs) THEN acc
    ELSE
      LET tok == pairs[i][1]
          deps == pairs[i][2]
          words1 == Append(acc.words, PTB(tok.word))
      IN TokenArrays(h, pairs, i + 1,
           [acc EXCEPT
              !.words = IF h = "snorkel"
                        THEN Append(words1, ReplaceNul(tok.word))
                        ELSE words1,
              !.lemmas = Append(@, PTB(tok.lemma)),
              !.lemma = IF h = "snorkel"
                        THEN Append(@, ReplaceNul(tok.lemma)) ELSE @,
              !.pos_tags = Append(@, tok.pos),
              !.ner_tags = Append(@, tok.ner),
              !.char_offsets = Append(@, tok.characterOffsetBegin),
              !.dep_par = Append(@, deps.governor),
              !.dep_lab = Append(@, deps.dep),
              !.dep_order = Append(@, deps.dependent)])

NoArrays ==
    [words |-> <<>>, lemmas |-> <<>>, lemma |-> <<>>, pos_tags |-> <<>>,
     ner_tags |-> <<>>, char_offsets |-> <<>>, dep_par |-> <<>>,
     dep_lab |-> <<>>, dep_order |-> <<>>]

\* the parts yielded for one sentence of the response (fonduer lines
\* 297-334, snorkel lines 449-494)
Parts(h, block, pos) ==
    LET a == TokenArrays(h, Zip(block.tokens, block.deps), 1, NoArrays)
        abs_sent_offset == a.char_offsets[1]
        char_offsets == [i \in 1..Len(a.char_offsets) |->
                            a.char_offsets[i] - abs_sent_offset]
        abs_sent_offset_end == abs_sent_offset
                               + char_offsets[Len(char_offsets)]
                               + StrLen(a.words[Len(a.words)])
    IN [words |-> a.words, lemmas |-> a.lemmas, lemma |-> a.lemma,
        pos_tags |-> a.pos_tags, ner_tags |-> a.ner_tags,
        char_offsets |-> char_offsets,
        dep_parents |-> sort_X_on_Y(a.dep_par, a.dep_order),
        dep_labels |-> sort_X_on_Y(a.dep_lab, a.dep_order),
        position |-> pos,
        entity_cids |-> [i \in 1..Len(a.words) |-> "O"],
        entity_types |-> [i \in 1..Len(a.words) |-> "O"],
        stable_id |-> <<"sentence", abs_sent_offset, abs_sent_offset_end>>,
        tokens |-> Len(block.tokens)]

\* the generator resumed: the next sentence of the response is yielded
YieldParts ==
    /\ handler \in Handlers
    /\ blocks # <<>>
    /\ sentences' = Append(sentences,
                           Parts(handler, Head(blocks), Len(sentences)))
    /\ blocks' = Tail(blocks)
    /\ UNCHANGED <<handler, parserVars, generateVars>>

InitHandler ==
    /\ ParserUnused
    /\ NoGenerator
    /\ handler \in Handlers
    /\ blocks \in SeqsUpTo(SentenceSet, MaxSentences)
    /\ sentences = <<>>

SpecHandler == InitHandler /\ [][YieldParts]_vars

\* ------------------------------------------------- a document given ahead
\* one step of a walk: the node entered (its tag, text, tail, rowspan and
\* colspan) or the exit of the open node
EnterStep(op, tag, text, tail, rs, cs) ==
    [op |-> op, tag |-> tag, text |-> text, tail |-> tail, rs |-> rs,
     cs |-> cs, resp |-> "", ends |-> {}, dbg |-> <<>>]

ExitStep == EnterStep("exit", "", <<>>, <<>>, 1, 1)

\* the head of the script is done
Consumed ==
    /\ script' = Tail(script)
    /\ UNCHANGED <<mode, first_ids, other, handlerVars, generateVars>>

ReplayRoot ==
    /\ mode = "replay" /\ script # <<>> /\ Head(script).op = "root"
    /\ ParseRoot(Head(script).tag, Head(script).text, Head(script).rs,
                 Head(script).cs)
    /\ Consumed

ReplayChild ==
    /\ mode = "replay" /\ script # <<>> /\ Head(script).op = "child"
    /\ ParseChild(Head(script).tag, Head(script).text, Head(script).tail,
                  Head(script).rs, Head(script).cs)
    /\ Consumed

ReplayExit ==
    /\ mode = "replay" /\ script # <<>> /\ Head(script).op = "exit"
    /\ ExitNode
    /\ Consumed

\* <table><tr><td colspan="2">a</td></tr><tr><td>a</td><td>a</td></tr></table>
TwoRowTable ==
    << EnterStep("root", "table", <<>>, <<>>, 1, 1),
       EnterStep("child", "tr", <<>>, <<>>, 1, 1),
       EnterStep("child", "td", <<"a">>, <<>>, 1, 2),
       ExitStep,
       ExitStep,
       EnterStep("child", "tr", <<>>, <<>>, 1, 1),
       EnterStep("child", "td", <<"a">>, <<>>, 1, 1),
       ExitStep,
       EnterStep("child", "td", <<"a">>, <<>>, 1, 1),
       ExitStep,
       ExitStep,
       ExitStep >>

\* the pipeline on the two-row table, the annotator free
InitTwoRowTable ==
    /\ InitState
    /\ tabular = TRUE
    /\ budget = TwoRowUnits
    /\ docClass = "Document"
    /\ batch_size \in BatchSizes
    /\ tree = NoTree
    /\ flatten_delim = <<>>
    /\ replacements = DefaultReplacements
    /\ mode = "replay"
    /\ script = TwoRowTable

NextTwoRowTable ==
    \/ ReplayRoot
    \/ ReplayChild
    \/ ReplayExit
    \/ \E resp \in Responses : ProcessBatch(resp) /\ Single

SpecTwoRowTable == InitTwoRowTable /\ [][NextTwoRowTable]_vars

\* ------------------------------------------- one parser, three documents
\* one step of the batch loop: the annotator's response to the batch
BatchStep(resp, ends, dbg) ==
    [op |-> "batch", tag |-> "", text |-> <<>>, tail |-> <<>>, rs |-> 1,
     cs |-> 1, resp |-> resp, ends |-> ends, dbg |-> dbg]

\* the step is added to the script of the first run
Noted(st) ==
    /\ script' = Append(script, st)
    /\ UNCHANGED <<mode, first_ids, other, handlerVars, generateVars>>

RerunTexts == {<<>>, <<"a">>}

RecordRoot ==
    /\ mode = "record"
    /\ \E tag \in PipelineTags, text \in RerunTexts :
          /\ ParseRoot(tag, text, 1, 1)
          /\ Noted(EnterStep("root", tag, text, <<>>, 1, 1))

RecordChild ==
    /\ mode = "record"
    /\ nodes < MaxRerunNodes
    /\ \E tag \in PipelineTags, text \in RerunTexts, tail \in RerunTexts :
          /\ BlocksFit(text, tail)
          /\ ParseChild(tag, text, tail, 1, 1)
          /\ Noted(EnterStep("child", tag, text, tail, 1, 1))

RecordExit ==
    /\ mode = "record"
    /\ ExitNode
    /\ Noted(ExitStep)

RecordBatch ==
    /\ mode = "record"
    /\ \E resp \in Responses :
       \E ends \in SUBSET UnitEnds(BatchText) :
       \E dbg \in [1..Cardinality(ends) -> Debugger] :
          /\ resp # "sentences" => ends = {}
          /\ ProcessBatchWith(resp, ends, dbg)
          /\ Noted(BatchStep(resp, ends, dbg))

\* the same responses to the same batch
ReplayBatch ==
    /\ mode = "replay" /\ script # <<>> /\ Head(script).op = "batch"
    /\ ProcessBatchWith(Head(script).resp, Head(script).ends,
                        Head(script).dbg)
    /\ Consumed

\* the documents parsed in between, without text: <div></div>,
\* <table><td colspan="2"></td></table>,
\* <table><td rowspan="2"></td><td></td></table>, <td></td> and
\* <table><td><table></table><table></table></td></table>
BetweenDocuments ==
    { << EnterStep("root", "div", <<>>, <<>>, 1, 1), ExitStep >>,
      << EnterStep("root", "table", <<>>, <<>>, 1, 1),
         EnterStep("child", "td", <<>>, <<>>, 1, 2), ExitStep, ExitStep >>,
      << EnterStep("root", "table", <<>>, <<>>, 1, 1),
         EnterStep("child", "td", <<>>, <<>>, 2, 1), ExitStep,
         EnterStep("child", "td", <<>>, <<>>, 1, 1), ExitStep, ExitStep >>,
      << EnterStep("root", "td", <<>>, <<>>, 1, 1), ExitStep >>,
      << EnterStep("root", "table", <<>>, <<>>, 1, 1),
         EnterStep("child", "td", <<>>, <<>>, 1, 1),
         EnterStep("child", "table", <<>>, <<>>, 1, 1), ExitStep,
         EnterStep("child", "table", <<>>, <<>>, 1, 1), ExitStep,
         ExitStep, ExitStep >> }

\* the head of the document in between is done
Walked ==
    /\ other' = Tail(other)
    /\ UNCHANGED <<mode, script, first_ids, handlerVars, generateVars>>

BetweenRoot ==
    /\ mode = "between" /\ other # <<>> /\ Head(other).op = "root"
    /\ ParseRoot(Head(other).tag, Head(other).text, Head(other).rs,
                 Head(other).cs)
    /\ Walked

BetweenChild ==
    /\ mode = "between" /\ other # <<>> /\ Head(other).op = "child"
    /\ ParseChild(Head(other).tag, Head(other).text, Head(other).tail,
                  Head(other).rs, Head(other).cs)
    /\ Walked

BetweenExit ==
    /\ mode = "between" /\ other # <<>> /\ Head(other).op = "exit"
    /\ ExitNode
    /\ Walked

\* parse_structure called again on the same OmniParserUDF (lines 486-501
\* and 576-580): the buffer, the block list, the TableInfo, table_idx and
\* the loop's locals are new; TableInfo(document, parent=document) takes
\* the default table_grid of line 611, the one dictionary every TableInfo
\* shares, as it was left
NextDocument ==
    /\ pc \in {"done", "failed"}
    /\ mode \in {"record", "between"}
    /\ mode' = IF mode = "record" THEN "between" ELSE "replay"
    /\ first_ids' = IF mode = "record" THEN StableIds ELSE first_ids
    /\ IF mode = "record" THEN other' \in BetweenDocuments
       ELSE other' = <<>>
    /\ pc' = "idle"
    /\ table_idx' = -1
    /\ stack' = <<>>
    /\ infos' = <<>>
    /\ nodes' = 0
    /\ tables' = <<>>
    /\ cells' = <<>>
    /\ contents' = <<>>
    /\ block_lengths' = <<>>
    /\ parents' = <<>>
    /\ parsed' = 0
    /\ batch_end' = 0
    /\ parent_idx' = 0
    /\ position' = 0
    /\ phrase_num' = 0
    /\ budget' = MaxUnits
    /\ fatal' = FALSE
    /\ skipped' = <<>>
    /\ phrases' = <<>>
    /\ warned' = 0
    /\ trapped' = <<>>
    /\ raised' = "none"
    /\ UNCHANGED <<confVars, table_grid, script, handlerVars, generateVars>>

InitRerun ==
    /\ InitState
    /\ tabular = TRUE
    /\ budget = MaxUnits
    /\ docClass = "Document"
    /\ batch_size = LargeBatch
    /\ tree = NoTree
    /\ flatten_delim = <<>>
    /\ replacements = DefaultReplacements
    /\ mode = "record"
    /\ script = <<>>

NextRerun ==
    \/ RecordRoot
    \/ RecordChild
    \/ RecordExit
    \/ RecordBatch
    \/ NextDocument
    \/ BetweenRoot
    \/ BetweenChild
    \/ BetweenExit
    \/ ReplayRoot
    \/ ReplayChild
    \/ ReplayExit
    \/ ReplayBatch

SpecRerun == InitRerun /\ [][NextRerun]_vars

\* ------------------------------------------- two workers in one process
\* another worker of the process walks documents of the form
\* <table><td></td></table> while the first document is parsed: its
\* TableInfo objects are its own, their table_grid is the default argument
\* of line 611, the one dictionary of the process
PeerEntered ==
    enter_tabular(NewTableInfo(DocumentRef), {}, <<>>, <<>>, -1, "table", 1, 1)

\* the peer's parse_node enters its table
PeerTable ==
    /\ mode = "record"
    /\ other = <<>>
    /\ table_grid' = enter_tabular(NewTableInfo(DocumentRef), table_grid,
                                   <<>>, <<>>, -1, "table", 1, 1).grid
    /\ other' = <<EnterStep("child", "td", <<>>, <<>>, 1, 1)>>
    /\ UNCHANGED <<pc, confVars, table_idx, stack, infos, nodes, tables,
                   cells, contents, block_lengths, parents, loopVars, raised,
                   mode, script, first_ids, handlerVars, generateVars>>

\* the peer's parse_node enters the cell of its table
PeerCell ==
    /\ mode = "record"
    /\ other # <<>>
    /\ table_grid' = enter_tabular(PeerEntered.ti, table_grid,
                                   PeerEntered.tables, <<>>, 0,
                                   Head(other).tag, Head(other).rs,
                                   Head(other).cs).grid
    /\ other' = Tail(other)
    /\ UNCHANGED <<pc, confVars, table_idx, stack, infos, nodes, tables,
                   cells, contents, block_lengths, parents, loopVars, raised,
                   mode, script, first_ids, handlerVars, generateVars>>

\* the first document parsed while the peer works, then parsed alone
NextInterleaved ==
    \/ NextRerun
    \/ PeerTable
    \/ PeerCell

SpecInterleaved == InitRerun /\ [][NextInterleaved]_vars

\* ------------------------------------------------------------- properties
NumBlocks == Len(block_lengths)
BlockIndexes == 0..(NumBlocks - 1)
BlockEnds == {block_char_end(k) : k \in BlockIndexes}

\* the block whose span of the buffer holds the character before offset `e`
OwnBlock(e) ==
    CHOOSE k \in BlockIndexes :
        /\ e <= block_char_end(k)
        /\ k > 0 => e > block_char_end(k - 1)

PhrasesOfParent(par) == {i \in 1..Len(phrases) : phrases[i].parent = par}
PhrasesOfBlock(k) == {i \in 1..Len(phrases) : phrases[i].block = k}
UnitsReturned == MaxUnits - budget
CellRect(c) == Rect(c.row_start, c.row_end, c.col_start, c.col_end)

\* C1: after parse_structure finishes, the positions of the Phrases of every
\* tabular parent (Document, Table, Cell) are exactly 0..k-1, without
\* repeats, k being the number of Phrases of that parent
C1_PositionsContiguousPerParent ==
    pc = "done" =>
        \A i \in 1..Len(phrases) :
            LET own == PhrasesOfParent(phrases[i].parent)
            IN {phrases[j].position : j \in own} = 0..(Cardinality(own) - 1)

\* C2: no two distinct cells of one table have intersecting rectangles
\* [row_start..row_end] x [col_start..col_end]
C2_CellsDoNotOverlap ==
    \A i \in 1..Len(cells) : \A j \in 1..Len(cells) :
        (i < j /\ cells[i].table = cells[j].table)
            => CellRect(cells[i]) \cap CellRect(cells[j]) = {}

\* C3: every batch boundary computed by the batching loop is the end of a
\* delimiter that terminates a block
C3_BoundaryEndsABlock ==
    batch_end > 0 => batch_end \in BlockEnds

C5_NestedTableLeavesOuterAlone ==
    [][(/\ Len(infos') >= 2
        /\ Len(infos') >= Len(infos)
        /\ infos'[Len(infos') - 1].cell # None)
       => (/\ table_grid' = table_grid
           /\ SubSeq(infos', 1, Len(infos') - 1)
                  = SubSeq(infos, 1, Len(infos') - 1))]_vars

\* C6: when the annotator has failed with too long or timed out on any
\* batch, the document has failed and no Phrase of it has been emitted
C6_FailureLeavesNoPhrase ==
    fatal => (pc = "failed" /\ phrases = <<>>)

ErrorsNamingDocument == {TooLongError, TimedOutError}

\* C7: the step on which the annotator reports too long or timed out ends
\* with an error naming the document leaving parse_structure, and no step
\* follows it: the error is not absorbed and no further batch is sent
C7_FatalErrorPropagates ==
    [][/\ ~fatal
       /\ fatal' => (pc' = "failed" /\ raised' \in ErrorsNamingDocument)]_vars

C7_Witness ==
    /\ fatal
    /\ pc = "failed"
    /\ raised = TimedOutError
    /\ Len(phrases) > 0

\* C8: after a batch with a malformed response a warning has been recorded,
\* the consumed offset has reached that batch's boundary, no Phrase ends
\* inside that batch, and every Phrase of a later batch is attached to the
\* block its text came from
C8_MalformedBatchIsSkipped ==
    skipped # <<>> =>
        /\ warned >= 1
        /\ parsed >= skipped[2]
        /\ \A i \in 1..Len(phrases) :
              /\ ~(skipped[1] < phrases[i].end /\ phrases[i].end <= skipped[2])
              /\ phrases[i].end > skipped[2]
                    => phrases[i].block = OwnBlock(phrases[i].end)

C8_Witness ==
    /\ pc = "done"
    /\ skipped # <<>>
    /\ batch_size = LargeBatch
    /\ \E i \in 1..Len(phrases) :
          phrases[i].end > skipped[2] /\ phrases[i].block = 1

\* C9: once phrase assembly has met a tabular parent that is neither a
\* Document, a Table nor a Cell, the parse has been aborted by that error
\* and no further Phrase has been emitted
C9_BadParentAbortsParse ==
    trapped # <<>> =>
        /\ pc = "failed"
        /\ raised = "NotImplementedError"
        /\ Len(phrases) = trapped[1]

\* C11: the pipeline run again on the same document with the same annotator
\* responses, on the same parser after another document, ends with the
\* same sequence of Table, Cell and Phrase stable identifiers
C11_RerunGivesSameStableIds ==
    (mode = "replay" /\ pc \in {"done", "failed"}) =>
        /\ script = <<>>
        /\ StableIds = first_ids

C11_Witness ==
    /\ mode = "replay"
    /\ pc = "done"
    /\ script = <<>>
    /\ tables # <<>>
    /\ cells # <<>>
    /\ phrases # <<>>
    /\ StableIds = first_ids

\* C12: within one document the block pointer never moves back, from unit
\* to unit and from batch to batch, and the block index attached to each
\* Phrase is at least that of the Phrase before it
C12_BlockIndexNeverDecreases ==
    [][/\ parent_idx' >= parent_idx
       /\ \A i \in 2..Len(phrases') :
             phrases'[i - 1].block <= phrases'[i].block]_vars

C12_Witness ==
    /\ pc = "done"
    /\ batch_size = SmallBatch
    /\ Len(phrases) = 2
    /\ phrases[1].block = 0
    /\ phrases[2].block = 1
    /\ parsed > phrases[2].end + Len(delim) - 1

GridWidth == MaxGridNodes * (MaxSpan + 2)

\* the first column k >= c with (r, k) not in grid, by definition
FirstFreeColumn(grid, r, c) ==
    CHOOSE k \in c..(c + GridWidth) :
        /\ <<r, k>> \notin grid
        /\ \A j \in c..(k - 1) : <<r, j>> \in grid

CellSpans(c) == <<c.row_start, c.col_start, c.row_end, c.col_end>>

\* C14: the two-row table (row 0 one cell of colspan 2, row 1 two plain
\* cells) gives one Table and three Cells with spans (0,0,0,1), (1,0,1,0)
\* and (1,1,1,1), and every Phrase of a cell's text carries that cell, its
\* table and the cell's start and end rows and columns
C14_TwoRowTableCells ==
    (script = <<>> /\ pc \in {"batch", "done", "failed"}) =>
        /\ Len(tables) = 1
        /\ [i \in 1..Len(cells) |-> CellSpans(cells[i])]
              = << <<0, 0, 0, 1>>, <<1, 0, 1, 0>>, <<1, 1, 1, 1>> >>
        /\ \A i \in 1..Len(phrases) :
              LET own == parents[OwnBlock(phrases[i].end) + 1]
              IN /\ own.kind = "Cell"
                 /\ phrases[i].cell = own.ref
                 /\ phrases[i].table = cells[own.ref].table
                 /\ phrases[i].span = <<cells[own.ref].row_start,
                                         cells[own.ref].row_end,
                                         cells[own.ref].col_start,
                                         cells[own.ref].col_end>>

C14_Witness ==
    /\ script = <<>>
    /\ pc = "done"
    /\ Len(phrases) = 3
    /\ \A i \in 1..3 : phrases[i].cell = i

\* C15: every Cell has row_end >= row_start and col_end >= col_start
C15_CellSpansAreOrdered ==
    \A i \in 1..Len(cells) :
        /\ cells[i].row_end >= cells[i].row_start
        /\ cells[i].col_end >= cells[i].col_start

\* C20: with the whitespace tokenizer, after the parse the unit made from
\* the i-th block's text is attached to the i-th block and carries its
\* tabular parent
C20_TokenizerUnitsMeetTheirBlocks ==
    pc = "done" =>
        /\ Len(phrases) = NumBlocks
        /\ \A i \in 1..Len(phrases) :
              /\ phrases[i].block = i - 1
              /\ phrases[i].parent = parents[i]

\* the text of block k, read back from the buffer
BlockText(k) ==
    SubSeq(contents, block_char_end(k) - block_lengths[k + 1] + 1,
           block_char_end(k) - Len(delim))

HelloThere ==
    <<"H", "e", "l", "l", "o", " ", "t", "h", "e", "r", "e", "!">>

\* C16 as stated: walking <p>Hello<span>there</span>!</p> with span in the
\* flatten set yields exactly one block, whose text is "Hello there!"
C16_FlattenGivesHelloThere ==
    (pc = "walked" /\ tree = HelloTree) =>
        (NumBlocks = 1 /\ BlockText(0) = HelloThere)

\* C16 as amended: walking that tree yields exactly one block, whose text
\* is "Hello", "there" and "!" with the flatten delimiter before "there"
\* and before "!"
C16_FlattenJoinsWithDelimiter ==
    (pc = "walked" /\ tree = HelloTree) =>
        /\ NumBlocks = 1
        /\ BlockText(0) = <<"H", "e", "l", "l", "o">> \o flatten_delim
                            \o <<"t", "h", "e", "r", "e">> \o flatten_delim
                            \o <<"!">>

C16_Witness ==
    /\ pc = "walked"
    /\ tree = HelloTree
    /\ flatten_delim = <<" ">>
    /\ NumBlocks = 1

\* the text runs inside blacklisted nodes: the node's own text and the
\* text and tail of its descendants
RunLetters == {"a", "b", "c", "d", "e", "f", "g"}
Letters(text) == {text[i] : i \in 1..Len(text)} \cap RunLetters
RECURSIVE Skipped(_)
Skipped(node) ==
    IF node.tag \in blacklist
    THEN Letters(node.text)
         \cup UNION {Letters(d.text) \cup Letters(d.tail) :
                        d \in {IterAll(node.children)[i] :
                                  i \in 1..Len(IterAll(node.children))}}
    ELSE UNION {Skipped(node.children[i]) : i \in 1..Len(node.children)}

\* C17: after the walk no block holds text of a blacklisted node or of a
\* descendant of one
C17_BlacklistedTextInNoBlock ==
    pc = "walked" =>
        \A k \in BlockIndexes : Letters(BlockText(k)) \cap Skipped(tree) = {}

\* the place of a text run in the document
Rank(ch) ==
    CASE ch = "a" -> 1 [] ch = "b" -> 2 [] ch = "c" -> 3 [] ch = "d" -> 4
      [] ch = "e" -> 5 [] ch = "f" -> 6 [] ch = "g" -> 7

\* C18: after the walk, of two text runs in different blocks the one that
\* is earlier in the document is in the block with the smaller index
C18_BlocksInDocumentOrder ==
    pc = "walked" =>
        \A k1 \in BlockIndexes : \A k2 \in BlockIndexes :
            k1 < k2 =>
                \A x \in Letters(BlockText(k1)) :
                \A y \in Letters(BlockText(k2)) : Rank(x) < Rank(y)

\* C19: after the walk every block has text that is not empty
C19_NoEmptyBlock ==
    pc = "walked" => \A k \in BlockIndexes : ~IsBlank(BlockText(k))

\* C22: the j-th Phrase emitted for a document, counting from 0 over all
\* blocks and batches, has phrase_num j and the stable identifier
\* <document-name>::phrase:j:j
C22_PhraseNumbersAreSequential ==
    \A j \in 1..Len(phrases) :
        /\ phrases[j].phrase_num = j - 1
        /\ phrases[j].stable_id = <<"phrase", j - 1, j - 1>>

C22_Witness ==
    /\ pc = "done"
    /\ skipped # <<>>
    /\ \E i \in 1..Len(phrases) : phrases[i].end <= skipped[1]
    /\ \E j \in 1..Len(phrases) : phrases[j].end > skipped[2]

\* C23: the m-th table element entered during the walk of a document
\* (pre-order, nested tables counted, m from 0) gets Table position m and
\* the stable identifier <document-name>::table:m:m, in every document a
\* parser walks
C23_TablePositionsAreSequential ==
    \A m \in 1..Len(tables) :
        /\ tables[m].position = m - 1
        /\ tables[m].stable_id = <<"table", m - 1, m - 1>>

C23_Witness ==
    /\ mode = "replay"
    /\ pc = "done"
    /\ Len(tables) = 2
    /\ Len(first_ids) = 3

\* the tabular parent in effect once the node entered by this step has
\* been exited: its enclosing tracker's parent for a table, what
\* exit_tabular restores for a cell
ParentAfterExit ==
    IF stack'[Len(stack')] = "table" THEN infos[Len(infos)].parent
    ELSE exit_tabular(infos'[Len(infos')], stack'[Len(stack')]).parent

\* C25: the tail of a td / th or table element is recorded with the tabular
\* parent in effect after the element's exit (the step that enters such a
\* node and records two blocks records its text, then its tail)
C25_TailTakesParentAfterExit ==
    [][(/\ Len(stack) >= 1
        /\ Len(stack') = Len(stack) + 1
        /\ stack'[Len(stack')] \in {"td", "th", "table"}
        /\ Len(parents') = Len(parents) + 2)
       => parents'[Len(parents')] = ParentAfterExit]_vars

\* C26: with tabular mode disabled the walk of a document completes
\* without error, also when it contains table elements, and records no
\* tabular parent
C26_WalkCompletesWithoutTabular ==
    ~tabular => (raised # "AttributeError" /\ parents = <<>>)

\* the tails of the blacklisted nodes whose parent is walked
RECURSIVE TailsOfSkipped(_)
TailsOfSkipped(node) ==
    IF node.tag \in blacklist THEN {}
    ELSE UNION {IF node.children[i].tag \in blacklist
                THEN Letters(node.children[i].tail)
                ELSE TailsOfSkipped(node.children[i]) :
                   i \in 1..Len(node.children)}

\* C27: the text that follows a skipped blacklisted node, its tail, is
\* still extracted as a block
C27_TailOfSkippedNodeIsExtracted ==
    pc = "walked" =>
        TailsOfSkipped(tree)
            \subseteq UNION {Letters(BlockText(k)) : k \in BlockIndexes}

\* every block, text and delimiter, is no longer than the batch size
BlocksFitBatch ==
    \A k \in 1..Len(block_lengths) : block_lengths[k] <= batch_size

\* C29: if every block is no longer than the batch size (no block text
\* holds the delimiter), every batch sent to the annotator is non-empty,
\* starts and ends at a cumulative block end, is at most batch_size long,
\* starts where the batch before it ended, and the last one ends with the
\* buffer
C29_BatchesAreWholeBlocks ==
    [][(pc = "batch" /\ BlocksFitBatch) =>
          /\ parsed \in {0} \cup BlockEnds
          /\ batch_end' \in BlockEnds
          /\ batch_end' > parsed
          /\ batch_end' - parsed <= batch_size
          /\ pc' = "batch" => parsed' = batch_end'
          /\ pc' = "done" => parsed' = Len(contents)]_vars

C29_Witness ==
    /\ pc = "done"
    /\ NumBlocks = 2
    /\ block_lengths[1] = batch_size
    /\ batch_end = Len(contents)
    /\ Len(phrases) = 2

\* C28: for every batch size from 1 on the consumed offset strictly
\* increases on every iteration of the batching loop that is not left by
\* an error, also when the window holds no complete delimiter, and the
\* loop ends, with the offset at or past the length of the buffer
C28_BatchingLoopTerminates ==
    /\ [][(pc = "batch" /\ pc' # "failed") => parsed' > parsed]_vars
    /\ [](pc = "done" => parsed >= Len(contents))
    /\ (pc = "batch" ~> pc \in {"done", "failed"})

C28_Witness ==
    /\ pc = "done"
    /\ batch_size = 1
    /\ NumBlocks = 2
    /\ parsed > Len(contents)

\* C24: DocPreprocessor.generate yields at most max_docs pairs, for every
\* max_docs >= 0 and every list of files, and once it has yielded max_docs
\* pairs it calls parse_file on no further file
C24_AtMostMaxDocs ==
    /\ [](max_docs >= 0 => yielded <= max_docs)
    /\ [][(max_docs >= 0 /\ yielded >= max_docs) => opened' = opened]_vars

\* C30: for every sentence CoreNLPHandler.parse yields, in both parsers,
\* words, lemmas, pos_tags, ner_tags, char_offsets, dep_parents and
\* dep_labels all have one entry per token of the response, and
\* char_offsets[0] is 0
C30_TokenArraysHaveOneEntryPerToken ==
    \A i \in 1..Len(sentences) :
        LET p == sentences[i]
        IN /\ \A n \in {Len(p.words), Len(p.lemmas), Len(p.pos_tags),
                          Len(p.ner_tags), Len(p.char_offsets),
                          Len(p.dep_parents), Len(p.dep_labels)} :
                 n = p.tokens
           /\ p.char_offsets[1] = 0

\* C21: a document processed while another worker of the process walks
\* its own documents gets the tables, the grid placements of its cells and
\* the Phrases it gets when processed alone, with the same walk and the
\* same annotator responses
C21_InterleavedEqualsAlone ==
    (mode = "replay" /\ script = <<>> /\ pc \in {"done", "failed"}) =>
        first_ids = StableIds

\* C10: the stable identifiers of the Document, the Tables, the Cells and
\* the Phrases of one parse are pairwise distinct
C10_StableIdsDistinct ==
    \A i \in 1..Len(StableIds) : \A j \in 1..Len(StableIds) :
        i < j => StableIds[i] # StableIds[j]

====
